---- MODULE Spec2Model ----
(***************************************************************************)
(* Limb codec (src/src/big_uint/utils.rs) and PKCS#1v1.5 signature         *)
(* verifier (src/src/lib.rs) of anon-aadhaar-halo2.                        *)
(*                                                                         *)
(* Unsigned machine integers and big integers are represented by the set   *)
(* of positions of their set bits (bit 0 is the least significant one):    *)
(* 5 is {0, 2}, 0 is {}.  A u64 is a subset of 0..63.  Bitwise AND and OR  *)
(* are intersection and union, shifts move the positions, and addition is  *)
(* carry propagation, so values of 64, 128 and 256 bits are exact.         *)
(*                                                                         *)
(* A field element is [neg, mag], standing for mag when neg is FALSE and   *)
(* for p - mag when neg is TRUE (mag /= 0).  Every magnitude of the model  *)
(* is below 2^200, far below half the field modulus, so the representation *)
(* is one-to-one.                                                          *)
(***************************************************************************)
EXTENDS Integers, Sequences, FiniteSets, TLC

VARIABLES
    \* ---- limb codec: arguments of the call
    fn,               \* entry point called: "decompose_bigint" or "decompose_biguint"
    e_neg,            \* e.is_negative()
    e_mag,            \* e.magnitude(), as a set of bit positions
    number_of_limbs,
    limb_bits_len,
    \* ---- limb codec: locals
    pc,               \* position in the codec call
    negate,           \* decompose_bigint took its negative branch
    e_iter,           \* the u64 digits the iterator e has not yielded yet
    mask,
    u64_digit,
    rem,
    limbs,            \* limbs emitted so far by the map closure
    result,           \* the returned Vec<F>
    \* ---- signature verifier: configuration and arguments of the call
    build,            \* "debug" (overflow checks on) or "release" (off)
    limb_bits,        \* biguint.limb_bits()
    public_key,       \* [n, e]
    msg,              \* message bytes
    signature,        \* [signer, msg, flipped]: who signed what, and tampering
    \* ---- signature verifier: locals and collaborators
    vpc,              \* position in verify_pkcs1v15_signature
    hash_calls,       \* calls of the Hash Oracle so far
    backend_calls,    \* calls of the Constraint Backend so far
    hash_out,         \* result.output_bytes as the oracle gave them
    failed,           \* the failing collaborator and its error, if any
    hashed_bytes,
    bases,
    hashed_u64s,
    is_sign_valid,
    ret,              \* what the call returned
    \* ---- timestamp circuit: witness and build
    year, month, day, hour, minute, second,   \* the Option<F> fields, all Some
    overflow_checks,  \* the build panics on u64 overflow instead of wrapping
    \* ---- timestamp circuit: synthesize
    tpc,              \* position in the region closure of synthesize
    assigned,         \* advice columns assigned at row 0 so far
    timestamp         \* value assigned to the timestamp cell, <<>> before

codecVars == <<fn, e_neg, e_mag, number_of_limbs, limb_bits_len,
               pc, negate, e_iter, mask, u64_digit, rem, limbs, result>>

verifyVars == <<build, limb_bits, public_key, msg, signature,
                vpc, hash_calls, backend_calls, hash_out, failed,
                hashed_bytes, bases, hashed_u64s, is_sign_valid, ret>>

timestampVars == <<year, month, day, hour, minute, second, overflow_checks,
                   tpc, assigned, timestamp>>

vars == <<codecVars, verifyVars, timestampVars>>

----------------------------------------------------------------------------
(* Bounds of the model *)

\* number of 64-bit digits an input magnitude may span
MaxDigits == 2
\* largest number_of_limbs requested
MaxLimbs == 3
\* largest number of set bits of an input magnitude
MaxSetBits == 3
\* longest message handed to the verifier
MaxMsgLen == 1
\* number of RSA key pairs
MaxKeys == 2

\* bit offsets inside a 64-bit digit at which inputs may have a set bit
BitOffsets == {0, 1, 24, 47, 62, 63}

\* limb widths tried: below, at and above the 64-bit digit boundary, and
\* at and above the 128 limit
LimbWidths == {0, 1, 24, 32, 48, 63, 64, 65, 100, 127, 128, 130}

ValueBits == {64 * d + o : d \in 0..(MaxDigits - 1), o \in BitOffsets}

Values == {s \in SUBSET ValueBits : Cardinality(s) <= MaxSetBits}

----------------------------------------------------------------------------
(* Machine arithmetic on sets of bit positions *)

\* width of a u64 digit
DigitBits == 64

\* x >> k
ShiftRight(x, k) == {i - k : i \in {j \in x : j >= k}}

\* x << k, without a width
ShiftLeft(x, k) == {i + k : i \in x}

\* x << k on a u64: bits moved to position 64 and above are lost
ShiftLeft64(x, k) == {i \in ShiftLeft(x, k) : i < DigitBits}

\* (1 << k) - 1
LowBits(k) == 0..(k - 1)

\* ((1u128 << bit_len) - 1u128) as u64
MaskOf(bit_len) == {i \in LowBits(bit_len) : i < DigitBits}

\* a + b
RECURSIVE Add(_, _)
Add(a, b) ==
    IF b = {} THEN a
    ELSE Add((a \cup b) \ (a \cap b), ShiftLeft(a \cap b, 1))

MaxOf(s) == CHOOSE m \in s : \A k \in s : k <= m

\* BigUint::to_u64_digits: little-endian 64-bit digits, none for zero
ToU64Digits(e) ==
    IF e = {} THEN <<>>
    ELSE [d \in 1..((MaxOf(e) \div DigitBits) + 1) |->
            {i - DigitBits * (d - 1) :
                i \in {j \in e : /\ j >= DigitBits * (d - 1)
                                /\ j < DigitBits * d}}]

\* NextDigit with unwrap_or(1) for unwrap_or(0)
NextDigitOne(it) == IF it = <<>> THEN {0} ELSE Head(it)

\* e.next().unwrap_or(0): the digit read
NextDigit(it) == IF it = <<>> THEN {} ELSE Head(it)

\* e.next(): the iterator afterwards
Advance(it) == IF it = <<>> THEN <<>> ELSE Tail(it)

----------------------------------------------------------------------------
(* Field elements *)

\* F::from(v)
FFrom(v) == [neg |-> FALSE, mag |-> v]

\* -x in the field
FNeg(x) == IF x.mag = {} THEN x ELSE [neg |-> ~x.neg, mag |-> x.mag]

\* .into_iter().map(|v| F::from(v)).collect()
FromLimbs(v) == [i \in 1..Len(v) |-> FFrom(v[i])]

\* the sum of limb[i] * 2^(i * b) over the limbs of v, as an integer
RECURSIVE WeightedSumFrom(_, _, _)
WeightedSumFrom(v, b, i) ==
    IF i > Len(v) THEN {}
    ELSE Add(ShiftLeft(v[i].mag, (i - 1) * b), WeightedSumFrom(v, b, i + 1))

WeightedSum(v, b) == WeightedSumFrom(v, b, 1)

----------------------------------------------------------------------------
(* decompose_u64_digits_to_limbs: one iteration of the map closure.  A step  *)
(* takes the current digit d, the remaining-bit counter r and the iterator   *)
(* it, and gives the limb and the three locals afterwards.                   *)

\* GreaterStep without the "& mask"
GreaterStepUnmasked(d, r, it, bit_len, m) ==
    [limb      |-> d,
     u64_digit |-> ShiftRight(d, bit_len),
     rem       |-> r - bit_len,
     e         |-> it]

\* Ordering::Greater: take the low bit_len bits and keep the rest of the digit
GreaterStep(d, r, it, bit_len, m) ==
    [limb      |-> d \cap m,
     u64_digit |-> ShiftRight(d, bit_len),
     rem       |-> r - bit_len,
     e         |-> it]

\* EqualStep without "rem = 64"
EqualStepRemKept(d, r, it, bit_len, m) ==
    [limb      |-> d \cap m,
     u64_digit |-> NextDigit(it),
     rem       |-> r,
     e         |-> Advance(it)]

\* Ordering::Equal: take what is left of the digit and fetch the next one
EqualStep(d, r, it, bit_len, m) ==
    [limb      |-> d \cap m,
     u64_digit |-> NextDigit(it),
     rem       |-> DigitBits,
     e         |-> Advance(it)]

\* LessStep without the "<< rem" that places the bits of the next digit
LessStepUnshifted(d, r, it, bit_len, m) ==
    LET next == NextDigit(it)
    IN  [limb      |-> d \cup (next \cap LowBits(bit_len - r)),
         u64_digit |-> ShiftRight(next, bit_len - r),
         rem       |-> r + (DigitBits - bit_len),
         e         |-> Advance(it)]

\* Ordering::Less: splice the rest of the digit with the low bits of the next
LessStep(d, r, it, bit_len, m) ==
    LET next == NextDigit(it)
    IN  [limb      |-> d \cup ShiftLeft64(next \cap LowBits(bit_len - r), r),
         u64_digit |-> ShiftRight(next, bit_len - r),
         rem       |-> r + (DigitBits - bit_len),
         e         |-> Advance(it)]

\* the amounts by which the iteration at (r, bit_len) shifts a u64:
\* ">>= bit_len", or "1 << (bit_len - rem)", "<< rem" and ">>= bit_len - rem"
ShiftAmounts(r, bit_len) ==
    IF r > bit_len THEN {bit_len}
    ELSE IF r = bit_len THEN {}
    ELSE {bit_len - r, r}

\* match rem.cmp(&bit_len)
LimbStep(d, r, it, bit_len, m) ==
    IF r > bit_len THEN GreaterStep(d, r, it, bit_len, m)
    ELSE IF r = bit_len THEN EqualStep(d, r, it, bit_len, m)
    ELSE LessStep(d, r, it, bit_len, m)

\* MoreLimbs over the inclusive range (0..=number_of_limbs)
MoreLimbsInclusive(count, n) == count <= n

\* (0..number_of_limbs): the closure runs while fewer limbs than asked exist
MoreLimbs(count, n) == count < n

RECURSIVE LimbLoop(_, _, _, _, _, _, _)
LimbLoop(out, d, r, it, n, bit_len, m) ==
    IF ~MoreLimbs(Len(out), n) THEN out
    ELSE LET st == LimbStep(d, r, it, bit_len, m)
         IN  LimbLoop(Append(out, st.limb), st.u64_digit, st.rem, st.e,
                      n, bit_len, m)

\* decompose_u64_digits_to_limbs(e, number_of_limbs, bit_len) as a function
DecomposeU64DigitsToLimbs(digits, n, bit_len) ==
    LimbLoop(<<>>, NextDigit(digits), DigitBits, Advance(digits),
             n, bit_len, MaskOf(bit_len))

\* halo2_base::utils::decompose_biguint, the delegate for limb widths above
\* 64: limb i holds bits [i * bit_len, (i + 1) * bit_len) of e
WideDecompose(e, n, bit_len) ==
    [i \in 1..n |->
        FFrom(ShiftRight({j \in e : j < i * bit_len}, (i - 1) * bit_len))]

\* assert!(limb_bits_len < 128)
LimbWidthLimit == 128

\* WidthAccepted with "<=" for "<"
WidthAcceptedInclusive(bit_len) == bit_len <= LimbWidthLimit

WidthAccepted(bit_len) == bit_len < LimbWidthLimit

\* if limb_bits_len <= 64
NarrowPath(bit_len) == bit_len <= DigitBits

\* decompose_biguint(e, number_of_limbs, limb_bits_len) as a function, for an
\* accepted width
DecomposeBiguint(e, n, bit_len) ==
    IF NarrowPath(bit_len)
    THEN FromLimbs(DecomposeU64DigitsToLimbs(ToU64Digits(e), n, bit_len))
    ELSE WideDecompose(e, n, bit_len)

\* NegateLimbs without the negation
NegateLimbsDropped(v) == v

\* .into_iter().map(|x| -x).collect()
NegateLimbs(v) == [i \in 1..Len(v) |-> FNeg(v[i])]

----------------------------------------------------------------------------
(* The codec call as a state machine *)

Signs(v) == IF v = {} THEN {FALSE} ELSE {FALSE, TRUE}

CodecInit ==
    /\ fn \in {"decompose_bigint", "decompose_biguint"}
    /\ e_mag \in Values
    \* a BigUint has no sign and a zero BigInt is not negative
    /\ e_neg \in IF fn = "decompose_bigint" THEN Signs(e_mag) ELSE {FALSE}
    /\ number_of_limbs \in 0..MaxLimbs
    /\ limb_bits_len \in LimbWidths
    /\ pc = fn
    /\ negate = FALSE
    /\ e_iter = <<>>
    /\ mask = {}
    /\ u64_digit = {}
    /\ rem = 0
    /\ limbs = <<>>
    /\ result = <<>>

args == <<fn, e_neg, e_mag, number_of_limbs, limb_bits_len>>

\* decompose_bigint: if e.is_negative() { .. } else { .. }; both branches
\* call decompose_biguint on the magnitude first
DecomposeBigint ==
    /\ pc = "decompose_bigint"
    /\ negate' = e_neg
    /\ pc' = "decompose_biguint"
    /\ UNCHANGED <<timestampVars, verifyVars, args, e_iter, mask, u64_digit,
                   rem, limbs, result>>

\* decompose_biguint: the assertion fails and the call panics
AssertFails ==
    /\ pc = "decompose_biguint"
    /\ ~WidthAccepted(limb_bits_len)
    /\ pc' = "panic"
    /\ UNCHANGED <<timestampVars, verifyVars, args, negate, e_iter, mask,
                   u64_digit, rem, limbs, result>>

\* decompose_biguint, narrow path: decompose_u64_digits_to_limbs up to the
\* first iteration
EnterNarrow ==
    /\ pc = "decompose_biguint"
    /\ WidthAccepted(limb_bits_len)
    /\ NarrowPath(limb_bits_len)
    /\ mask' = MaskOf(limb_bits_len)
    /\ u64_digit' = NextDigit(ToU64Digits(e_mag))
    /\ e_iter' = Advance(ToU64Digits(e_mag))
    /\ rem' = DigitBits
    /\ limbs' = <<>>
    /\ pc' = "limbs"
    /\ UNCHANGED <<timestampVars, verifyVars, args, negate, result>>

\* decompose_biguint, wide path: the delegate returns the limbs
DelegateWide ==
    /\ pc = "decompose_biguint"
    /\ WidthAccepted(limb_bits_len)
    /\ ~NarrowPath(limb_bits_len)
    /\ result' = WideDecompose(e_mag, number_of_limbs, limb_bits_len)
    /\ pc' = "biguint_ret"
    /\ UNCHANGED <<timestampVars, verifyVars, args, negate, e_iter, mask,
                   u64_digit, rem, limbs>>

Emit(st) ==
    /\ limbs' = Append(limbs, st.limb)
    /\ u64_digit' = st.u64_digit
    /\ rem' = st.rem
    /\ e_iter' = st.e
    /\ UNCHANGED <<timestampVars, verifyVars, args, pc, negate, mask, result>>

LimbGreater ==
    /\ pc = "limbs"
    /\ MoreLimbs(Len(limbs), number_of_limbs)
    /\ rem > limb_bits_len
    /\ Emit(GreaterStep(u64_digit, rem, e_iter, limb_bits_len, mask))

LimbEqual ==
    /\ pc = "limbs"
    /\ MoreLimbs(Len(limbs), number_of_limbs)
    /\ rem = limb_bits_len
    /\ Emit(EqualStep(u64_digit, rem, e_iter, limb_bits_len, mask))

LimbLess ==
    /\ pc = "limbs"
    /\ MoreLimbs(Len(limbs), number_of_limbs)
    /\ rem < limb_bits_len
    /\ Emit(LessStep(u64_digit, rem, e_iter, limb_bits_len, mask))

\* .collect() of the limbs, then .map(|v| F::from(v)).collect()
CollectNarrow ==
    /\ pc = "limbs"
    /\ ~MoreLimbs(Len(limbs), number_of_limbs)
    /\ result' = FromLimbs(limbs)
    /\ pc' = "biguint_ret"
    /\ UNCHANGED <<timestampVars, verifyVars, args, negate, e_iter, mask,
                   u64_digit, rem, limbs>>

\* decompose_biguint returns to decompose_bigint's negative branch
ReturnNegated ==
    /\ pc = "biguint_ret"
    /\ negate
    /\ result' = NegateLimbs(result)
    /\ pc' = "done"
    /\ UNCHANGED <<timestampVars, verifyVars, args, negate, e_iter, mask,
                   u64_digit, rem, limbs>>

\* decompose_biguint returns to its caller unchanged
ReturnPlain ==
    /\ pc = "biguint_ret"
    /\ ~negate
    /\ pc' = "done"
    /\ UNCHANGED <<timestampVars, verifyVars, args, negate, e_iter, mask,
                   u64_digit, rem, limbs, result>>

CodecNext ==
    \/ DecomposeBigint
    \/ AssertFails
    \/ EnterNarrow
    \/ DelegateWide
    \/ LimbGreater
    \/ LimbEqual
    \/ LimbLess
    \/ CollectNarrow
    \/ ReturnNegated
    \/ ReturnPlain

\* no synthesis of the timestamp circuit is under way
TimestampIdle ==
    /\ year = FFrom({})
    /\ month = FFrom({})
    /\ day = FFrom({})
    /\ hour = FFrom({})
    /\ minute = FFrom({})
    /\ second = FFrom({})
    /\ overflow_checks = FALSE
    /\ tpc = "idle"
    /\ assigned = {}
    /\ timestamp = <<>>

\* no verification is under way
VerifyIdle ==
    /\ build = "release"
    /\ limb_bits = DigitBits
    /\ public_key = [n |-> 1, e |-> 0]
    /\ msg = <<>>
    /\ signature = [signer |-> 1, msg |-> <<>>, flipped |-> FALSE]
    /\ vpc = "idle"
    /\ hash_calls = 0
    /\ backend_calls = 0
    /\ hash_out = <<>>
    /\ failed = [stage |-> "none"]
    /\ hashed_bytes = <<>>
    /\ bases = <<>>
    /\ hashed_u64s = <<>>
    /\ is_sign_valid = FALSE
    /\ ret = [tag |-> "none"]

InitCodec == CodecInit /\ VerifyIdle /\ TimestampIdle

SpecCodec == InitCodec /\ [][CodecNext]_vars

----------------------------------------------------------------------------
(* Collaborators of the signature verifier *)

\* length of a SHA-256 digest in bytes
DigestLen == 32

\* the byte n as a set of bit positions
ByteBits(n) == {i \in 0..7 : (n \div (2 ^ i)) % 2 = 1}

RECURSIVE MixFrom(_, _, _)
MixFrom(m, k, j) ==
    IF j > Len(m) THEN 0
    ELSE (m[j] + j) * (k + j) + MixFrom(m, k, j + 1)

\* Hash Oracle: a fixed function from messages to 32-byte digests
Sha256(m) ==
    [k \in 1..DigestLen |->
        FFrom(ByteBits((MixFrom(m, k, 1) + 31 * k * k + 7 * Len(m) + 99) % 256))]

\* errors a collaborator may return
Errors == {"Synthesis", "NotEnoughRowsAvailable"}

\* the exponent the signing keys are generated for
DefaultE == 65537

\* the digest d read as a big-endian integer
RECURSIVE BigEndianFrom(_, _)
BigEndianFrom(d, k) ==
    IF k > Len(d) THEN {}
    ELSE Add(ShiftLeft(d[k].mag, 8 * (Len(d) - k)), BigEndianFrom(d, k + 1))

BigEndian(d) == BigEndianFrom(d, 1)

\* Constraint Backend: signature^e mod n equals the PKCS#1v1.5 encoding of
\* the digest that the limbs hashed (of width lb) stand for.  A signature is
\* what its signer's private key made of the SHA-256 digest of a message,
\* possibly with a bit flipped afterwards; it opens to that digest under the
\* signer's modulus and exponent only.
RsaVerify(pk, hashed, lb, sig) ==
    /\ sig.signer = pk.n
    /\ pk.e = DefaultE
    /\ ~sig.flipped
    /\ \A i \in 1..Len(hashed) : ~hashed[i].neg
    /\ WeightedSum(hashed, lb) = BigEndian(Sha256(sig.msg))

----------------------------------------------------------------------------
(* verify_pkcs1v15_signature *)

\* Reverse that leaves the order as it is
ReverseSkipped(v) == v

\* hashed_bytes.reverse()
Reverse(v) == [i \in 1..Len(v) |-> v[Len(v) + 1 - i]]

\* a * b
RECURSIVE Mul(_, _)
Mul(a, b) ==
    IF b = {} THEN {}
    ELSE LET i == CHOOSE k \in b : TRUE
         IN  Add(ShiftLeft(a, i), Mul(a, b \ {i}))

\* gate().inner_product(ctx, left, bases) over values that are not negated
RECURSIVE InnerProductFrom(_, _, _)
InnerProductFrom(a, b, i) ==
    IF i > Len(a) \/ i > Len(b) THEN {}
    ELSE Add(Mul(a[i].mag, b[i].mag), InnerProductFrom(a, b, i + 1))

InnerProduct(a, b) == FFrom(InnerProductFrom(a, b, 1))

\* let limb_bytes = limb_bits / 8
LimbBytes(lb) == lb \div 8

\* bytes_bits / limb_bits, with bytes_bits = hashed_bytes.len() * 8
NumWindows(bytes, lb) == (Len(bytes) * 8) \div lb

\* 1u64 << (8 * i) overflows: the shift amount reaches the width of u64
ShiftOverflows(i) == 8 * i >= DigitBits

\* (1u64 << (8 * i)) as u64 where overflow is not checked: the shift amount
\* is taken modulo 64
BaseOf(i) == FFrom(ShiftLeft64({0}, (8 * i) % DigitBits))

\* (0..limb_bytes).map(|i| F::from((1u64 << (8 * i)) as u64))
BasesOf(lb) == [k \in 1..LimbBytes(lb) |-> BaseOf(k - 1)]

BasesOverflow(lb) == \E i \in 0..(LimbBytes(lb) - 1) : ShiftOverflows(i)

\* Window with the start not scaled by limb_bytes: hashed_bytes[i..i + limb_bytes]
WindowUnscaled(bytes, lb, i) == SubSeq(bytes, i + 1, i + LimbBytes(lb))

\* hashed_bytes[limb_bytes * i..limb_bytes * (i + 1)]
Window(bytes, lb, i) ==
    SubSeq(bytes, LimbBytes(lb) * i + 1, LimbBytes(lb) * (i + 1))

\* limb widths the verifier is configured with
VerifyWidths == {8, 12, 16, 24, 32, 64, 72, 128}

MsgBytes == {0, 171}

Msgs == UNION {[1..n -> MsgBytes] : n \in 0..MaxMsgLen}

Keys == 1..MaxKeys

Exponents == {DefaultE, 3}

VerifyInit ==
    /\ build \in {"debug", "release"}
    /\ limb_bits \in VerifyWidths
    /\ public_key \in [n : Keys, e : Exponents]
    /\ msg \in Msgs
    /\ signature \in [signer : Keys, msg : Msgs, flipped : BOOLEAN]
    /\ vpc = "digest"
    /\ hash_calls = 0
    /\ backend_calls = 0
    /\ hash_out = <<>>
    /\ failed = [stage |-> "none"]
    /\ hashed_bytes = <<>>
    /\ bases = <<>>
    /\ hashed_u64s = <<>>
    /\ is_sign_valid = FALSE
    /\ ret = [tag |-> "none"]

config == <<build, limb_bits, public_key, msg, signature>>

\* sha256.digest(ctx, msg, None)? succeeds
HashDigestOk ==
    /\ vpc = "digest"
    /\ hash_calls' = hash_calls + 1
    /\ hash_out' = Sha256(msg)
    /\ hashed_bytes' = Sha256(msg)
    /\ vpc' = "reverse"
    /\ UNCHANGED <<timestampVars, codecVars, config, backend_calls, failed,
                   bases, hashed_u64s, is_sign_valid, ret>>

\* HashDigestErr with the error dropped and the call carrying on
HashDigestErrSwallowed ==
    /\ vpc = "digest"
    /\ hash_calls' = hash_calls + 1
    /\ \E err \in Errors : failed' = [stage |-> "hash", error |-> err]
    /\ vpc' = "reverse"
    /\ UNCHANGED <<timestampVars, codecVars, config, backend_calls, hash_out,
                   hashed_bytes, bases, hashed_u64s, is_sign_valid, ret>>

\* sha256.digest(ctx, msg, None)? fails: the error is returned
HashDigestErr ==
    /\ vpc = "digest"
    /\ hash_calls' = hash_calls + 1
    /\ \E err \in Errors :
          /\ failed' = [stage |-> "hash", error |-> err]
          /\ ret' = [tag |-> "err", error |-> err]
    /\ vpc' = "done"
    /\ UNCHANGED <<timestampVars, codecVars, config, backend_calls, hash_out,
                   hashed_bytes, bases, hashed_u64s, is_sign_valid>>

\* hashed_bytes.reverse() and the bases, no shift overflowing or overflow
\* not being checked
ReverseAndBases ==
    /\ vpc = "reverse"
    /\ ~BasesOverflow(limb_bits) \/ build = "release"
    /\ hashed_bytes' = Reverse(hashed_bytes)
    /\ bases' = BasesOf(limb_bits)
    /\ hashed_u64s' = <<>>
    /\ vpc' = "pack"
    /\ UNCHANGED <<timestampVars, codecVars, config, hash_calls,
                   backend_calls, hash_out, failed, is_sign_valid, ret>>

\* the bases with overflow checks: "attempt to shift left with overflow"
BasesPanic ==
    /\ vpc = "reverse"
    /\ BasesOverflow(limb_bits) /\ build = "debug"
    /\ hashed_bytes' = Reverse(hashed_bytes)
    /\ vpc' = "panic"
    /\ UNCHANGED <<timestampVars, codecVars, config, hash_calls,
                   backend_calls, hash_out, failed, bases, hashed_u64s,
                   is_sign_valid, ret>>

\* one iteration of for i in 0..(bytes_bits / limb_bits)
PackWindow ==
    /\ vpc = "pack"
    /\ Len(hashed_u64s) < NumWindows(hashed_bytes, limb_bits)
    /\ hashed_u64s' =
          Append(hashed_u64s,
                 InnerProduct(Window(hashed_bytes, limb_bits, Len(hashed_u64s)),
                              bases))
    /\ UNCHANGED <<timestampVars, codecVars, config, vpc, hash_calls,
                   backend_calls, hash_out, failed, hashed_bytes, bases,
                   is_sign_valid, ret>>

\* rsa.verify_pkcs1v15_signature(ctx, public_key, &hashed_u64s, signature)?
\* succeeds
BackendOk ==
    /\ vpc = "pack"
    /\ ~(Len(hashed_u64s) < NumWindows(hashed_bytes, limb_bits))
    /\ backend_calls' = backend_calls + 1
    /\ is_sign_valid' = RsaVerify(public_key, hashed_u64s, limb_bits, signature)
    /\ vpc' = "return"
    /\ UNCHANGED <<timestampVars, codecVars, config, hash_calls, hash_out,
                   failed, hashed_bytes, bases, hashed_u64s, ret>>

\* rsa.verify_pkcs1v15_signature(..)? fails: the error is returned
BackendErr ==
    /\ vpc = "pack"
    /\ ~(Len(hashed_u64s) < NumWindows(hashed_bytes, limb_bits))
    /\ backend_calls' = backend_calls + 1
    /\ \E err \in Errors :
          /\ failed' = [stage |-> "backend", error |-> err]
          /\ ret' = [tag |-> "err", error |-> err]
    /\ vpc' = "done"
    /\ UNCHANGED <<timestampVars, codecVars, config, hash_calls, hash_out,
                   hashed_bytes, bases, hashed_u64s, is_sign_valid>>

\* ReturnOk without the second hashed_bytes.reverse()
ReturnOkUnreversed ==
    /\ vpc = "return"
    /\ ret' = [tag |-> "ok", is_valid |-> is_sign_valid, digest |-> hashed_bytes]
    /\ vpc' = "done"
    /\ UNCHANGED <<timestampVars, codecVars, config, hash_calls,
                   backend_calls, hash_out, failed, hashed_bytes, bases,
                   hashed_u64s, is_sign_valid>>

\* hashed_bytes.reverse(); Ok((is_sign_valid, hashed_bytes))
ReturnOk ==
    /\ vpc = "return"
    /\ hashed_bytes' = Reverse(hashed_bytes)
    /\ ret' = [tag |-> "ok", is_valid |-> is_sign_valid,
               digest |-> Reverse(hashed_bytes)]
    /\ vpc' = "done"
    /\ UNCHANGED <<timestampVars, codecVars, config, hash_calls,
                   backend_calls, hash_out, failed, bases, hashed_u64s,
                   is_sign_valid>>

VerifyNext ==
    \/ HashDigestOk
    \/ HashDigestErr
    \/ ReverseAndBases
    \/ BasesPanic
    \/ PackWindow
    \/ BackendOk
    \/ BackendErr
    \/ ReturnOk

\* no codec call is under way
CodecIdle ==
    /\ fn = "none"
    /\ e_neg = FALSE
    /\ e_mag = {}
    /\ number_of_limbs = 0
    /\ limb_bits_len = 0
    /\ pc = "idle"
    /\ negate = FALSE
    /\ e_iter = <<>>
    /\ mask = {}
    /\ u64_digit = {}
    /\ rem = 0
    /\ limbs = <<>>
    /\ result = <<>>

InitVerify == VerifyInit /\ CodecIdle /\ TimestampIdle

SpecVerify == InitVerify /\ [][VerifyNext]_vars

----------------------------------------------------------------------------
(* TimestampCircuit::synthesize (src/src/timestamp.rs).  The u64 values of   *)
(* the date arithmetic are below 2^31 and are integers of the model; a       *)
(* value that may have wrapped, and every field element, is a set of bits.   *)

\* the bits of n, for 0 <= n < 2^31
Bits(n) == {i \in 0..30 : (n \div (2 ^ i)) % 2 = 1}

\* the integer with the bits b, all below bit 31
RECURSIVE ToInt(_)
ToInt(b) ==
    IF b = {} THEN 0
    ELSE LET i == CHOOSE k \in b : TRUE
         IN  (2 ^ i) + ToInt(b \ {i})

\* x.get_lower_32() as u64
GetLower32(x) == ToInt({i \in x.mag : i < 32})

\* a - b on u64 where overflow is not checked: modulo 2^64
WrappingSub(a, b) ==
    IF a >= b THEN Bits(a - b)
    ELSE LowBits(DigitBits) \ Bits(b - a - 1)

\* the low 64 bits of x
Wrap64(x) == {i \in x : i < DigitBits}

\* days_till_previous_month
DaysTillPreviousMonth == <<0, 31, 59, 90, 120, 151, 181, 212, 243, 273, 304, 334>>

\* leap_years_before(year), for year >= 1969
LeapYearsBefore(y) ==
    ((y - 1969) \div 4) - ((y - 1901) \div 100) + ((y - 1601) \div 400)

\* (year_val - 1970) * 365 + leap_years_before(year_val) as a u64
DaysToYear(y) ==
    Wrap64(Add(Wrap64(Mul(WrappingSub(y, 1970), Bits(365))),
               Bits(LeapYearsBefore(y))))

\* days_passed: F::from(..) + days_till_previous_month[month - 1]
\*              + F::from(day_val - 1)
DaysPassed(y, m, d) ==
    Add(Add(DaysToYear(y), Bits(DaysTillPreviousMonth[m])), WrappingSub(d, 1))

\* total_seconds
TotalSeconds(y, m, d, h, mi, sec) ==
    Add(Add(Add(Mul(DaysPassed(y, m, d), Bits(86400)), Bits(h * 3600)),
            Bits(mi * 60)),
        Bits(sec))

\* year_val - 1970 or day_val - 1 goes below zero
SubUnderflows(y, d) == y < 1970 \/ d < 1

\* days_till_previous_month[(month_val - 1) as usize] is out of bounds, or
\* month_val - 1 goes below zero
MonthIndexFails(m) == m < 1 \/ m > Len(DaysTillPreviousMonth)

Years == {1969, 1970, 1972, 2000, 2023, 2024}
Months == 0..13
Days == {0, 1, 8, 28, 29, 30, 31}
Hours == {0, 12, 23}
Minutes == {0, 34, 59}
Seconds == {0, 56, 59}

AsField(S) == {FFrom(Bits(n)) : n \in S}

TimestampInit ==
    /\ year \in AsField(Years)
    /\ month \in AsField(Months)
    /\ day \in AsField(Days)
    /\ hour \in AsField(Hours)
    /\ minute \in AsField(Minutes)
    /\ second \in AsField(Seconds)
    /\ overflow_checks \in BOOLEAN
    /\ tpc = "inputs"
    /\ assigned = {}
    /\ timestamp = <<>>

inputs == <<year, month, day, hour, minute, second, overflow_checks>>

\* config.sel.enable and the six region.assign_advice of the inputs
AssignInputs ==
    /\ tpc = "inputs"
    /\ assigned' = {"year", "month", "day", "hour", "minute", "second"}
    /\ tpc' = "compute"
    /\ UNCHANGED <<codecVars, verifyVars, inputs, timestamp>>

Panics ==
    \/ MonthIndexFails(GetLower32(month))
    \/ overflow_checks /\ SubUnderflows(GetLower32(year), GetLower32(day))

\* days_passed, total_seconds and the assign_advice of the timestamp
AssignTimestamp ==
    /\ tpc = "compute"
    /\ ~Panics
    /\ timestamp' = FFrom(TotalSeconds(GetLower32(year), GetLower32(month),
                                       GetLower32(day), GetLower32(hour),
                                       GetLower32(minute), GetLower32(second)))
    /\ assigned' = assigned \cup {"timestamp"}
    /\ tpc' = "done"
    /\ UNCHANGED <<codecVars, verifyVars, inputs>>

\* a checked subtraction overflows or the month index is out of bounds
TimestampPanic ==
    /\ tpc = "compute"
    /\ Panics
    /\ tpc' = "panic"
    /\ UNCHANGED <<codecVars, verifyVars, inputs, assigned, timestamp>>

TimestampNext ==
    \/ AssignInputs
    \/ AssignTimestamp
    \/ TimestampPanic

InitTimestamp == TimestampInit /\ CodecIdle /\ VerifyIdle

SpecTimestamp == InitTimestamp /\ [][TimestampNext]_vars

----------------------------------------------------------------------------
(* Properties of the limb codec *)

\* v < 2^(n * b)
Fits(v, n, b) == \A i \in v : i < n * b

Unsigned(v) == \A i \in 1..Len(v) : ~v[i].neg

BoundaryWidths == {63, 64, 65}

\* C1: an unsigned decomposition of v into n limbs of b < 128 bits, with
\* v < 2^(n * b), has limbs that are plain (not negated) values whose weighted
\* sum of limb[i] * 2^(i * b) is v; the same v also round-trips at each of
\* the boundary widths 63, 64 and 65 that can hold it.
C1_RoundTrip ==
    (pc = "done" /\ ~negate) =>
        /\ Fits(e_mag, number_of_limbs, limb_bits_len) =>
              /\ Unsigned(result)
              /\ WeightedSum(result, limb_bits_len) = e_mag
        /\ \A b \in BoundaryWidths :
              Fits(e_mag, number_of_limbs, b) =>
                 WeightedSum(DecomposeBiguint(e_mag, number_of_limbs, b), b) = e_mag

\* a value with bits on both sides of the first digit boundary and in the
\* second digit's top bit, cut into three 63-bit limbs by the splicing branch
C1_Witness ==
    /\ pc = "done"
    /\ fn = "decompose_biguint"
    /\ limb_bits_len = 63
    /\ number_of_limbs = 3
    /\ e_mag = {63, 64, 127}
    /\ WeightedSum(result, limb_bits_len) = e_mag

\* C2: decompose_bigint returns the unsigned decomposition of the magnitude,
\* every limb negated in the field when the input is negative and unchanged
\* when it is not.
C2_SignHandling ==
    (pc = "done" /\ fn = "decompose_bigint") =>
        LET u == DecomposeBiguint(e_mag, number_of_limbs, limb_bits_len)
        IN  /\ Len(result) = Len(u)
            /\ \A i \in 1..Len(u) :
                  result[i] = IF e_neg THEN FNeg(u[i]) ELSE u[i]

\* a negative input whose result has a negated limb and a zero limb
C2_Witness ==
    /\ pc = "done"
    /\ fn = "decompose_bigint"
    /\ e_neg
    /\ \E i \in 1..Len(result) : result[i].neg /\ result[i].mag # {}
    /\ \E i \in 1..Len(result) : result[i].mag = {}

\* C3: a decomposition that returns, returns exactly number_of_limbs limbs,
\* whatever the bit length of the input; none when number_of_limbs = 0.
C3_OutputLength ==
    (pc = "done") =>
        /\ Len(result) = number_of_limbs
        /\ (number_of_limbs = 0 => result = <<>>)

\* zero limbs asked of a non-zero value on the narrow path
C3_Witness ==
    /\ pc = "done"
    /\ number_of_limbs = 0
    /\ limb_bits_len = 63
    /\ e_mag # {}
    /\ result = <<>>

\* C4: the decomposition of zero is number_of_limbs zero limbs, and every
\* limb that lies wholly above the highest set bit of the input is zero.
C4_ZeroExtension ==
    (pc = "done") =>
        /\ e_mag = {} =>
              /\ Len(result) = number_of_limbs
              /\ \A i \in 1..Len(result) : result[i] = FFrom({})
        /\ \A i \in 1..Len(result) :
              (\A j \in e_mag : j < (i - 1) * limb_bits_len) => result[i].mag = {}

\* one digit of input and limbs read past the end of the digit stream
C4_Witness ==
    /\ pc = "done"
    /\ e_mag = {0, 63}
    /\ limb_bits_len = 48
    /\ number_of_limbs = 3
    /\ e_iter = <<>>
    /\ result[3].mag = {}

\* C5: with limb_bits_len >= 128 the call panics at the assertion, before
\* any limb is computed, and never returns a limb sequence.
C5_WidthPrecondition ==
    (limb_bits_len >= 128) =>
        /\ pc \in {"decompose_bigint", "decompose_biguint", "panic"}
        /\ limbs = <<>>
        /\ result = <<>>
        /\ pc = "decompose_biguint" =>
              /\ ENABLED AssertFails
              /\ ~ENABLED EnterNarrow
              /\ ~ENABLED DelegateWide

\* decompose_bigint of a negative value with width 128 has panicked
C5_Witness ==
    /\ pc = "panic"
    /\ fn = "decompose_bigint"
    /\ e_neg
    /\ limb_bits_len = 128
    /\ number_of_limbs > 0

----------------------------------------------------------------------------
(* Properties of the signature verifier *)

Completed == vpc = "done" /\ ret.tag = "ok"

\* sig is the untampered signature of message m under the key pair of pk
Genuine(sig, pk, m) ==
    /\ sig.signer = pk.n
    /\ pk.e = DefaultE
    /\ ~sig.flipped
    /\ Sha256(sig.msg) = Sha256(m)

\* widths that cut the 32 digest bytes into whole windows of at most 8 bytes
ExactWidths == {8, 16, 32, 64}

C7_DigestReturned ==
    Completed =>
        /\ hash_out = Sha256(msg)
        /\ Len(ret.digest) = DigestLen
        /\ ret.digest = hash_out

\* a completed call whose digest is not its own mirror image
C7_Witness ==
    /\ Completed
    /\ ret.digest = Sha256(msg)
    /\ ret.digest # Reverse(ret.digest)
    /\ hashed_u64s # <<>>

\* C8: each collaborator is called at most once, the hash first; a failure
\* of the oracle is returned as it is without the backend being called, a
\* failure of the backend is returned as it is; a call that has ended has
\* returned either one (validity bit, digest) pair or one error and nothing
\* else, and a call that has not ended has returned nothing.
C8_FailurePropagation ==
    /\ hash_calls <= 1 /\ backend_calls <= 1
    /\ backend_calls = 1 => (hash_calls = 1 /\ failed.stage # "hash")
    /\ failed.stage = "hash" =>
          /\ backend_calls = 0
          /\ vpc = "done"
          /\ ret = [tag |-> "err", error |-> failed.error]
    /\ failed.stage = "backend" =>
          /\ vpc = "done"
          /\ ret = [tag |-> "err", error |-> failed.error]
    /\ vpc = "done" =>
          \/ /\ failed.stage = "none"
             /\ DOMAIN ret = {"tag", "is_valid", "digest"}
             /\ ret.tag = "ok"
             /\ hash_calls = 1 /\ backend_calls = 1
          \/ /\ failed.stage # "none"
             /\ DOMAIN ret = {"tag", "error"}
             /\ ret.tag = "err"
    /\ vpc # "done" => ret = [tag |-> "none"]

\* the backend has failed after a successful hash
C8_Witness ==
    /\ vpc = "done"
    /\ failed.stage = "backend"
    /\ hash_calls = 1
    /\ backend_calls = 1
    /\ ret.tag = "err"

\* the limb of window j as the claim states it: byte i weighted by 256^i
RECURSIVE WindowSumFrom(_, _, _, _)
WindowSumFrom(r, lb, j, i) ==
    IF i >= LimbBytes(lb) THEN {}
    ELSE Add(ShiftLeft(r[j * LimbBytes(lb) + i + 1].mag, 8 * i),
             WindowSumFrom(r, lb, j, i + 1))

PackedAsStated(r, lb) ==
    [k \in 1..((Len(r) * 8) \div lb) |-> FFrom(WindowSumFrom(r, lb, k - 1, 0))]

\* C9: for every configured limb width the limbs handed to the backend are
\* floor(256 / limb_bits) little-endian sums of limb_bytes reversed digest
\* bytes, byte i weighted by exactly 256^i, and no weight overflows.
C9_PackingEveryWidth ==
    /\ vpc # "panic"
    /\ backend_calls = 1 =>
          hashed_u64s = PackedAsStated(Reverse(hash_out), limb_bits)

\* C10: for the limb widths 8, 16, 32 and 64 the packed limbs, weighted by
\* 2^(j * limb_bits), sum to the digest read as a big-endian integer, so the
\* bit returned does not depend on which of these widths is configured.
C10_WidthInvariance ==
    (backend_calls = 1 /\ limb_bits \in ExactWidths) =>
        /\ WeightedSum(hashed_u64s, limb_bits) = BigEndian(hash_out)
        /\ Completed => (ret.is_valid <=> Genuine(signature, public_key, msg))

\* a genuine signature accepted at limb width 32
C10_Witness ==
    /\ Completed
    /\ limb_bits = 32
    /\ Len(hashed_u64s) = 8
    /\ WeightedSum(hashed_u64s, limb_bits) = BigEndian(Sha256(msg))
    /\ ret.is_valid

----------------------------------------------------------------------------
(* Properties of the narrow path of the limb codec *)

NarrowWidths == 1..64

\* base-2^b digit i (counted from 1) of v: bits [(i - 1) * b, i * b) of v
DigitOf(v, b, i) == ShiftRight({j \in v : j < i * b}, (i - 1) * b)

\* C11: for a limb width in 1..64 an unsigned decomposition never fails,
\* whatever the size of v; its n limbs are the n lowest base-2^b digits of v,
\* limb i being bits [i * b, (i + 1) * b) of v, so their weighted sum is
\* v mod 2^(n * b).
C11_SilentTruncation ==
    (limb_bits_len \in NarrowWidths) =>
        /\ pc # "panic"
        /\ (pc = "done" /\ ~negate) =>
              /\ Len(result) = number_of_limbs
              /\ \A i \in 1..Len(result) :
                    result[i] = FFrom(DigitOf(e_mag, limb_bits_len, i))
              /\ WeightedSum(result, limb_bits_len)
                    = {j \in e_mag : j < number_of_limbs * limb_bits_len}

\* a 128-bit value cut down to its two lowest 24-bit digits
C11_Witness ==
    /\ pc = "done"
    /\ fn = "decompose_biguint"
    /\ limb_bits_len = 24
    /\ number_of_limbs = 2
    /\ e_mag = {0, 47, 127}
    /\ WeightedSum(result, limb_bits_len) = {0, 47}

\* C12: for a limb width in 1..64, at every iteration of the closure rem is
\* in 1..64, the current digit has no bit at position rem or above, no shift
\* of the coming iteration is by 64 or more, and every limb emitted so far
\* is below 2^bit_len.
C12_WindowInvariant ==
    (pc = "limbs" /\ limb_bits_len \in NarrowWidths) =>
        /\ rem >= 1 /\ rem <= 64
        /\ \A i \in u64_digit : i < rem
        /\ MoreLimbs(Len(limbs), number_of_limbs) =>
              \A k \in ShiftAmounts(rem, limb_bits_len) : k >= 0 /\ k < 64
        /\ \A i \in 1..Len(limbs) : \A j \in limbs[i] : j < limb_bits_len

\* after two 63-bit limbs, the second spliced from bit 63 of the first digit
\* and bit 0 of the second, two bits of the second digit are left and its top
\* bit is now bit 1
C12_Witness ==
    /\ pc = "limbs"
    /\ limb_bits_len = 63
    /\ Len(limbs) = 2
    /\ rem = 2
    /\ u64_digit = {1}
    /\ limbs[2] = {0, 1}

----------------------------------------------------------------------------
(* Properties of the timestamp circuit *)

IsLeapYear(y) == y % 4 = 0 /\ (y % 100 # 0 \/ y % 400 = 0)

DaysInYear(y) == IF IsLeapYear(y) THEN 366 ELSE 365

DaysInMonth(y, m) ==
    IF m = 2 THEN (IF IsLeapYear(y) THEN 29 ELSE 28)
    ELSE IF m \in {4, 6, 9, 11} THEN 30 ELSE 31

RECURSIVE DaysBeforeYear(_)
DaysBeforeYear(y) ==
    IF y <= 1970 THEN 0 ELSE DaysInYear(y - 1) + DaysBeforeYear(y - 1)

RECURSIVE DaysBeforeMonth(_, _)
DaysBeforeMonth(y, m) ==
    IF m <= 1 THEN 0 ELSE DaysInMonth(y, m - 1) + DaysBeforeMonth(y, m - 1)

\* days from 1970-01-01 to the date y-m-d
DaysSinceEpoch(y, m, d) == DaysBeforeYear(y) + DaysBeforeMonth(y, m) + (d - 1)

\* seconds from 1970-01-01 00:00:00 UTC to the date-time
SecondsSinceEpoch(y, m, d, h, mi, sec) ==
    DaysSinceEpoch(y, m, d) * 86400 + h * 3600 + mi * 60 + sec

ValidDateTime(y, m, d, h, mi, sec) ==
    /\ y >= 1970
    /\ m \in 1..12
    /\ d >= 1 /\ d <= DaysInMonth(y, m)
    /\ h < 24 /\ mi < 60 /\ sec < 60

\* C13: for every valid date-time from 1970 on, leap years after February
\* included, synthesize does not underflow and the timestamp cell holds the
\* seconds elapsed since 1970-01-01 00:00:00 UTC.
C13_EpochSeconds ==
    LET y == GetLower32(year)      m == GetLower32(month)
        d == GetLower32(day)       h == GetLower32(hour)
        mi == GetLower32(minute)   sec == GetLower32(second)
    IN  (tpc \in {"compute", "done", "panic"}
            /\ ValidDateTime(y, m, d, h, mi, sec)) =>
            /\ tpc # "panic"
            /\ ~SubUnderflows(y, d)
            /\ tpc = "done" =>
                  timestamp = FFrom(Bits(SecondsSinceEpoch(y, m, d, h, mi, sec)))

====
